---- MODULE Spec2Model ----
(***************************************************************************)
(* Model of the SEAC training script train.py: the training loop main(),   *)
(* the info window it keeps, the cadences of logging, checkpointing and    *)
(* evaluation, the evaluation loop evaluate() and the metrics aggregator   *)
(* _squash_info().  The rollout storage, the agents' update rule and the   *)
(* vectorized environment live outside train.py; they are modelled by the  *)
(* contract the specification document gives them.                         *)
(*                                                                         *)
(* Three specifications share the variables:                               *)
(*   Spec        main() against an environment whose episodes end at any   *)
(*               step; evaluate(), which shares no state with main(), is   *)
(*               one step of it;                                           *)
(*   SpecEval    main() against an environment whose episodes run to the   *)
(*               time limit, with evaluate() taken statement by statement  *)
(*               against an environment whose episodes end at any step     *)
(*               (SpecEvalFair adds the fairness of a sequential program); *)
(*   SpecSquash  _squash_info() and the two reporting steps that use it,   *)
(*               started on every bounded list of info dicts.              *)
(***************************************************************************)
EXTENDS Integers, Sequences, FiniteSets, TLC

\* ------------------------------------------------------------- bounds ----
NumAgents == 2      \* len(envs.observation_space)
NumEnvs == 2        \* algorithm["num_envs"]
NumSteps == 2       \* algorithm["num_steps"], the rollout horizon H
NumEnvSteps == 12   \* config["num_env_steps"]
TimeLimit == 3      \* config["time_limit"], the episode length cap
MaxLogInterval == 3   \* largest config["log_interval"] drawn by Init
MaxSaveInterval == 2  \* largest config["save_interval"] drawn by Init
MaxEvalInterval == 2  \* largest config["eval_interval"] drawn by Init
EpisodesPerEval == 2  \* config["episodes_per_eval"]
MaxInfos == 3         \* longest list of info dicts drawn by InitSquash

\* --------------------------------------------------- program constants ----
InfoWindowMaxLen == 10   \* deque(maxlen=10)

\* An optional interval is None or Some(n)
None == << >>
Some(n) == << n >>
ValueOf(opt) == opt[1]

VARIABLES
    num_env_steps,  \* config["num_env_steps"]
    log_interval,   \* config["log_interval"]
    save_interval,  \* config["save_interval"] (may be None)
    eval_interval,  \* config["eval_interval"] (may be None)
    pc,             \* position of main()
    j,              \* update index of the for loop at line 195
    step,           \* rollout step of the for loop at line 197
    k,              \* list position reached by the current per-agent loop
    n_value,        \* values returned by the act calls of this step
    n_action,       \* actions returned by the act calls of this step
    n_action_log_prob,
    n_recurrent_hidden_states,
    obs,            \* per-agent observations returned by envs.reset / envs.step
    reward,         \* reward matrix returned by envs.step, by column
    done,           \* done flags returned by the last envs.step
    infos,          \* info dicts returned by the last envs.step
    masks,          \* masks tensor built at line 215
    bad_masks,      \* bad_masks tensor built at lines 217-222
    storage,        \* agent id -> rollout storage of that agent
    params,         \* agent id -> number of updates applied to its policy
    all_infos,      \* the info window (deque) of main()
    environment_steps,
    envs_open,      \* the training environment has not been closed
    elapsed,        \* per instance: steps taken in its current episode
    error,          \* the exception that ended main(), "" while none
    \* the checkpoint directory and the metrics sink
    dirs,           \* directories under save_dir
    files,          \* <<update index, agent id>>: saved model files on disk
    tars,           \* archives under save_dir
    \* locals of evaluate()
    eval_envs,      \* "none", "open" or "closed"
    eval_elapsed,   \* per evaluation instance: steps taken in its episode
    eval_masks,     \* masks of evaluate()
    eval_n_masks,   \* n_masks of evaluate()
    eval_done,      \* done flags returned by the last eval_envs.step
    eval_infos,     \* all_infos of evaluate()
    \* a call of _squash_info on its own
    squash_in,
    squash_out,
    \* history variables
    events,         \* calls made on agents/storages/envs in the current cycle
    cadence,        \* cadence actions performed in the current cycle
    update_seen,    \* storages as passed to each update call of the cycle
    env_hist,       \* slot -> what envs.step returned for the step stored there
    produced,       \* non-empty infos appended since the last metrics flush
    log_len,        \* len(all_infos) when line 253 was last evaluated
    logged,         \* update indices at which wandb.log was called
    saved,          \* <<update index, agent id>> pairs saved
    archived,       \* update indices whose checkpoint archive was uploaded
    evaluated,      \* one record per evaluate() call
    act_read,       \* what the last act call of main() was handed
    stepped_with,   \* the joint action handed to the last envs.step
    env_step_calls, \* number of envs.step calls made
    close_calls,    \* number of envs.close calls made
    eval_act_masks, \* the masks handed to the last act calls of evaluate()
    eval_steps,     \* eval_envs.step calls made by the current evaluate()
    eval_episodes,  \* episodes ended in the current evaluate()
    eval_made,      \* environments constructed by the current evaluate()
    eval_closes,    \* eval_envs.close calls made by the current evaluate()
    eval_misuse,    \* eval_envs was stepped when it was not open
    reported        \* what the last evaluate() logged

config_vars == << num_env_steps, log_interval, save_interval, eval_interval >>
env_vars == << done, infos, masks, bad_masks, elapsed >>
cadence_hist == << logged, saved, archived, evaluated >>
act_vars == << n_value, n_action, n_action_log_prob, n_recurrent_hidden_states >>
route_vars == << obs, reward, act_read, stepped_with >>
count_vars == << env_step_calls, close_calls >>
fs_vars == << dirs, files, tars >>
eval_vars == << eval_envs, eval_elapsed, eval_masks, eval_n_masks, eval_done,
                eval_infos, eval_act_masks, eval_steps, eval_episodes, eval_made,
                eval_closes, eval_misuse, reported >>
squash_vars == << squash_in, squash_out >>

vars == << config_vars, pc, j, step, k, act_vars, env_vars, storage, params,
           all_infos, environment_steps, envs_open, error, events, cadence,
           update_seen, env_hist, produced, log_len, cadence_hist, route_vars,
           count_vars, fs_vars, eval_vars, squash_vars >>

\* ------------------------------------------------------------ helpers ----
AgentIds == 0 .. NumAgents - 1
EnvIds == 1 .. NumEnvs
EvalIds == 1 .. EpisodesPerEval
Slots == 0 .. NumSteps

\* agents = [A2C(i, osp, asp) for i, ... in enumerate(...)]: list of agent ids
agents == [n \in 1 .. NumAgents |-> n - 1]

\* a count of updates that stops one environment step short
num_updatesShort == ((num_env_steps - 1) \div NumSteps) \div NumEnvs

\* int(num_env_steps) // num_steps // num_envs
num_updates == (num_env_steps \div NumSteps) \div NumEnvs

TruncKey == "TimeLimit.truncated"
RewardKey == "episode_reward"
LengthKey == "episode_length"

\* The values an info dict holds: a number, a sequence of numbers, a flag
Scalar(n) == [kind |-> "scalar", val |-> n]
Vector(ns) == [kind |-> "sequence", val |-> ns]
Flag(b) == [kind |-> "bool", val |-> b]

\* Python truthiness of such a value
PyTruthy(v) ==
    CASE v.kind = "bool" -> v.val
      [] v.kind = "scalar" -> v.val # 0
      [] v.kind = "sequence" -> v.val # << >>

EmptyInfo == [x \in {} |-> Scalar(0)]
\* the statistics of an episode of len steps
EpisodeInfo(len) ==
    [x \in {RewardKey, LengthKey} |-> IF x = RewardKey THEN Scalar(1) ELSE Scalar(len)]
\* the same, flagged as cut by the time limit
TruncatedInfo(len) ==
    [x \in {RewardKey, LengthKey, TruncKey} |->
        IF x = RewardKey THEN Scalar(1)
        ELSE IF x = LengthKey THEN Scalar(len) ELSE Flag(TRUE)]

\* What one environment instance can return from one step: (done, info).
\* An instance that is still running returns an empty info; an episode end
\* returns the episode statistics, with the truncation flag when the time
\* limit cut the episode.  Both ends of an episode report done.
Running == [done |-> FALSE, info |-> EmptyInfo]
Terminated(len) == [done |-> TRUE, info |-> EpisodeInfo(len)]
Truncated(len) == [done |-> TRUE, info |-> TruncatedInfo(len)]

\* outcomes of the step taken after el steps of the current episode
EnvOutcomes(el) ==
    IF el + 1 >= TimeLimit
    THEN {Terminated(el + 1), Truncated(el + 1)}
    ELSE {Running, Terminated(el + 1)}

\* an instance whose episodes all run to the time limit
FullEpisodes(el) == IF el + 1 >= TimeLimit THEN {Truncated(el + 1)} ELSE {Running}

\* the instance starts a new episode after an episode end
ElapsedAfter(el, out) == IF out.done THEN 0 ELSE el + 1

\* Python truthiness of a dict
Truthy(info) == DOMAIN info # {}

\* info.get(key, False)
Get(info, key) == IF key \in DOMAIN info THEN info[key] ELSE Flag(FALSE)

Unset == << >>

Ones == [e \in EnvIds |-> 1]

\* A tensor is named by where it came from: what it is, the update cycle
\* and rollout step that produced it, and the agent it belongs to
Tensor(what, cycle, st, id) == << what, cycle, st, id >>
OwnerOf(t) == t[4]

\* obs = envs.reset(): one observation per agent
ResetObs == [n \in 1 .. NumAgents |-> Tensor("obs", 0, 0, n - 1)]

\* the initial recurrent state of a new storage
ZeroHidden == Tensor("zeros", 0, 0, 0)

\* ------------------------------------------------- rollout storage ----
Steps == 0 .. NumSteps - 1

\* RolloutStorage(num_steps = H, ...): H + 1 slots of observations,
\* recurrent states and masks (slot 0 is the seed), H slots of the rest
NewStorage ==
    [ step |-> 0,
      obs |-> [s \in Slots |-> Unset],
      recurrent_hidden_states |-> [s \in Slots |-> IF s = 0 THEN ZeroHidden ELSE Unset],
      actions |-> [s \in Steps |-> Unset],
      action_log_probs |-> [s \in Steps |-> Unset],
      value_preds |-> [s \in Steps |-> Unset],
      rewards |-> [s \in Steps |-> Unset],
      masks |-> [s \in Slots |-> IF s = 0 THEN Ones ELSE Unset],
      bad_masks |-> [s \in Slots |-> IF s = 0 THEN Ones ELSE Unset],
      returns |-> FALSE,
      overflow |-> FALSE ]

\* storage.insert(obs, recurrent_hidden_states, actions, action_log_probs,
\* value_preds, rewards, masks, bad_masks): writes the next slot and advances
\* the step pointer; fails on the (H+1)-th call between two resets
StorageInsert(st, o, h, a, lp, v, r, m, bm) ==
    IF st.step >= NumSteps
    THEN [st EXCEPT !.overflow = TRUE]
    ELSE [st EXCEPT !.obs[st.step + 1] = o,
                    !.recurrent_hidden_states[st.step + 1] = h,
                    !.actions[st.step] = a,
                    !.action_log_probs[st.step] = lp,
                    !.value_preds[st.step] = v,
                    !.rewards[st.step] = r,
                    !.masks[st.step + 1] = m,
                    !.bad_masks[st.step + 1] = bm,
                    !.step = st.step + 1]

\* agent.compute_returns(): fills the returns buffer of the agent's storage
StorageComputeReturns(st) == [st EXCEPT !.returns = TRUE]

\* storage.after_update(): slot H becomes the seed of the next rollout, the
\* step pointer is reset, nothing else of the rollout is kept
StorageAfterUpdate(st) ==
    [ step |-> 0,
      obs |-> [s \in Slots |-> IF s = 0 THEN st.obs[NumSteps] ELSE Unset],
      recurrent_hidden_states |->
          [s \in Slots |-> IF s = 0 THEN st.recurrent_hidden_states[NumSteps] ELSE Unset],
      actions |-> [s \in Steps |-> Unset],
      action_log_probs |-> [s \in Steps |-> Unset],
      value_preds |-> [s \in Steps |-> Unset],
      rewards |-> [s \in Steps |-> Unset],
      masks |-> [s \in Slots |-> IF s = 0 THEN st.masks[NumSteps] ELSE Unset],
      bad_masks |-> [s \in Slots |-> IF s = 0 THEN st.bad_masks[NumSteps] ELSE Unset],
      returns |-> FALSE,
      overflow |-> st.overflow ]

\* number of non-seed transitions a storage holds
Held(st) == Cardinality({s \in 1 .. NumSteps : st.masks[s] # Unset})

\* ---------------------------------------------------- pieces of main ----
\* a rollout loop that runs one step too many
RolloutLenOffByOne == NumSteps + 1

\* range(algorithm["num_steps"]) of the rollout loop
RolloutLen == NumSteps

\* agents[i].storage.obs[0].copy_(obs[i])
SeedObs(st, o) == [st EXCEPT !.obs[0] = o]

\* an act call that reads the slot after the current one
ActInputAhead(st, s) ==
    [ obs |-> st.obs[s + 1],
      recurrent_hidden_states |-> st.recurrent_hidden_states[s + 1],
      masks |-> st.masks[s + 1] ]

\* agent.storage.obs[step], agent.storage.recurrent_hidden_states[step],
\* agent.storage.masks[step]
ActInput(st, s) ==
    [ obs |-> st.obs[s],
      recurrent_hidden_states |-> st.recurrent_hidden_states[s],
      masks |-> st.masks[s] ]

\* the transition of the agent at list position n, with the reward column
\* of the agent before it
InsertArgsShifted(n) ==
    [ obs |-> obs[n],
      recurrent_hidden_states |-> n_recurrent_hidden_states[n],
      actions |-> n_action[n],
      action_log_probs |-> n_action_log_prob[n],
      value_preds |-> n_value[n],
      rewards |-> reward[IF n = 1 THEN NumAgents ELSE n - 1] ]

\* obs[i], n_recurrent_hidden_states[i], n_action[i], n_action_log_prob[i],
\* n_value[i], reward[:, i] for the list position n = i + 1
InsertArgs(n) ==
    [ obs |-> obs[n],
      recurrent_hidden_states |-> n_recurrent_hidden_states[n],
      actions |-> n_action[n],
      action_log_probs |-> n_action_log_prob[n],
      value_preds |-> n_value[n],
      rewards |-> reward[n] ]

\* a mask with the two values swapped
MaskOfSwapped(done_) == IF done_ THEN 1 ELSE 0

\* [0.0] if done_ else [1.0]
MaskOf(done_) == IF done_ THEN 0 ELSE 1

\* [0.0] if info.get("TimeLimit.truncated", False) else [1.0]
BadMaskOf(info) == IF PyTruthy(Get(info, TruncKey)) THEN 0 ELSE 1

\* an update that is handed the storages in reverse agent order
UpdateArgReversed == [n \in 1 .. NumAgents |-> agents[NumAgents + 1 - n]]

\* [a.storage for a in agents], each storage named by its owner
UpdateArg == [n \in 1 .. NumAgents |-> agents[n]]

\* an append on a list that is never trimmed
DequeAppendUnbounded(w, info) == Append(w, info)

\* all_infos.append(info) on deque(maxlen=10)
DequeAppend(w, info) ==
    IF Len(w) >= InfoWindowMaxLen THEN Append(Tail(w), info) ELSE Append(w, info)

\* if info: all_infos.append(info)
KeepInfo(w, info) == IF Truthy(info) THEN DequeAppend(w, info) ELSE w

\* for info in infos: if info: all_infos.append(info)
RECURSIVE CollectInto(_, _)
CollectInto(w, is) ==
    IF is = << >> THEN w ELSE CollectInto(KeepInfo(w, Head(is)), Tail(is))

\* all_infos.clear()
Cleared(w) == << >>

\* j % config["log_interval"] == 0 and len(all_infos) > 1
LogDue(jj, w) == jj % log_interval = 0 /\ Len(w) > 1

\* a checkpoint cadence that forgets the final update
SaveDueNoFinal(jj) ==
    /\ save_interval # None
    /\ jj > 0
    /\ jj % ValueOf(save_interval) = 0

\* config["save_interval"] is not None and
\*   (j > 0 and j % config["save_interval"] == 0 or j == num_updates)
SaveDue(jj) ==
    /\ save_interval # None
    /\ ((jj > 0 /\ jj % ValueOf(save_interval) = 0) \/ jj = num_updates)

\* an evaluation cadence that forgets the final update
EvalDueNoFinal(jj) ==
    /\ eval_interval # None
    /\ jj > 0
    /\ jj % ValueOf(eval_interval) = 0

\* config["eval_interval"] is not None and
\*   (j > 0 and j % config["eval_interval"] == 0 or j == num_updates)
EvalDue(jj) ==
    /\ eval_interval # None
    /\ ((jj > 0 /\ jj % ValueOf(eval_interval) = 0) \/ jj = num_updates)

Ctl(p, kk, st) == [pc |-> p, k |-> kk, step |-> st]

\* The statement order of the body of main's for loop: what runs after the
\* statement at p (for list position kk and rollout step st)
MainOrder(p, kk, st) ==
    CASE p = "act" ->
            IF kk + 1 < NumAgents THEN Ctl("act", kk + 1, st) ELSE Ctl("env_step", 0, st)
      [] p = "env_step" -> Ctl("insert", 0, st)
      [] p = "insert" ->
            IF kk + 1 < NumAgents THEN Ctl("insert", kk + 1, st) ELSE Ctl("infos", 0, st)
      [] p = "infos" ->
            IF st + 1 < RolloutLen THEN Ctl("act", 0, st + 1) ELSE Ctl("returns", 0, 0)
      [] p = "returns" ->
            IF kk + 1 < NumAgents THEN Ctl("returns", kk + 1, 0) ELSE Ctl("update", 0, 0)
      [] p = "update" ->
            IF kk + 1 < NumAgents THEN Ctl("update", kk + 1, 0) ELSE Ctl("after_update", 0, 0)
      [] p = "after_update" ->
            IF kk + 1 < NumAgents THEN Ctl("after_update", kk + 1, 0) ELSE Ctl("log", 0, 0)
      [] p = "log" -> Ctl("save", 0, 0)
      [] p = "save" -> Ctl("eval", 0, 0)
      [] p = "save_agent" ->
            IF kk + 1 < NumAgents THEN Ctl("save_agent", kk + 1, 0) ELSE Ctl("archive", 0, 0)
      [] p = "archive" -> Ctl("rmtree", 0, 0)
      [] p = "rmtree" -> Ctl("upload", 0, 0)
      [] p = "upload" -> Ctl("eval", 0, 0)
      [] p = "eval" -> Ctl("loop", 0, 0)

\* compute_returns and update fused into one per-agent loop
AdvanceFusedReturns(p, kk, st) ==
    CASE p = "returns" -> Ctl("update", kk, 0)
      [] p = "update" ->
            IF kk + 1 < NumAgents THEN Ctl("returns", kk + 1, 0) ELSE Ctl("after_update", 0, 0)
      [] OTHER -> MainOrder(p, kk, st)

\* the update loop running from the last agent to the first
AdvanceDescending(p, kk, st) ==
    CASE p = "returns" ->
            IF kk + 1 < NumAgents THEN Ctl("returns", kk + 1, 0)
                                  ELSE Ctl("update", NumAgents - 1, 0)
      [] p = "update" ->
            IF kk > 0 THEN Ctl("update", kk - 1, 0) ELSE Ctl("after_update", 0, 0)
      [] OTHER -> MainOrder(p, kk, st)

\* update and after_update fused into one per-agent loop
AdvanceFusedAfterUpdate(p, kk, st) ==
    CASE p = "update" -> Ctl("after_update", kk, 0)
      [] p = "after_update" ->
            IF kk + 1 < NumAgents THEN Ctl("update", kk + 1, 0) ELSE Ctl("log", 0, 0)
      [] OTHER -> MainOrder(p, kk, st)

\* the cadence actions in the order checkpoint, evaluation, log
AdvanceLogLast(p, kk, st) ==
    CASE p = "after_update" ->
            IF kk + 1 < NumAgents THEN Ctl("after_update", kk + 1, 0) ELSE Ctl("save", 0, 0)
      [] p = "eval" -> Ctl("log", 0, 0)
      [] p = "log" -> Ctl("loop", 0, 0)
      [] OTHER -> MainOrder(p, kk, st)

\* the checkpoint directory deleted before it is archived
AdvanceRmtreeFirst(p, kk, st) ==
    CASE p = "save_agent" ->
            IF kk + 1 < NumAgents THEN Ctl("save_agent", kk + 1, 0) ELSE Ctl("rmtree", 0, 0)
      [] p = "rmtree" -> Ctl("archive", 0, 0)
      [] p = "archive" -> Ctl("upload", 0, 0)
      [] OTHER -> MainOrder(p, kk, st)

Advance(p, kk, st) == MainOrder(p, kk, st)

\* os.makedirs(save_dir/u<j>/agent<id>, exist_ok=True): the cycle directory
\* and the agent's subdirectory
MakeDirs(ds, jj, id) == ds \cup {<< jj >>, << jj, id >>}

\* shutil.make_archive(cur_save_dir, "xztar", save_dir, f"u{j}"): a tar file
\* of whatever the cycle directory holds
MakeArchive(ds, fs, jj) ==
    [ update |-> jj,
      dirs |-> {d \in ds : d[1] = jj},
      files |-> {f \in fs : f[1] = jj} ]

\* ------------------------------------------------ pieces of evaluate ----
ZeroMasks == [e \in EvalIds |-> 0]

\* an evaluation loop that goes on while the count is at most the target
EvalOrderAtMost(p, n) ==
    CASE p = "eval_begin" -> "eval_loop"
      [] p = "eval_loop" -> IF n <= EpisodesPerEval THEN "eval_act" ELSE "eval_close"
      [] p = "eval_act" -> "eval_step"
      [] p = "eval_step" -> "eval_loop"
      [] p = "eval_close" -> "eval_report"

\* an evaluation that closes its environment inside the loop
EvalOrderCloseInLoop(p, n) ==
    CASE p = "eval_begin" -> "eval_loop"
      [] p = "eval_loop" -> IF n < EpisodesPerEval THEN "eval_act" ELSE "eval_report"
      [] p = "eval_act" -> "eval_step"
      [] p = "eval_step" -> "eval_close"
      [] p = "eval_close" -> "eval_loop"

\* The statement order of evaluate: what runs after the statement at p when
\* all_infos holds n dicts (while len(all_infos) < episodes_per_eval)
EvalOrder(p, n) ==
    CASE p = "eval_begin" -> "eval_loop"
      [] p = "eval_loop" -> IF n < EpisodesPerEval THEN "eval_act" ELSE "eval_close"
      [] p = "eval_act" -> "eval_step"
      [] p = "eval_step" -> "eval_loop"
      [] p = "eval_close" -> "eval_report"

\* all_infos.extend([i for i in infos if i])
Extend(w, is) == w \o SelectSeq(is, Truthy)

\* --------------------------------------------- pieces of _squash_info ----
RECURSIVE SumSeq(_)
SumSeq(ns) == IF ns = << >> THEN 0 ELSE Head(ns) + SumSeq(Tail(ns))

RECURSIVE Gcd(_, _)
Gcd(a, b) == IF b = 0 THEN a ELSE Gcd(b, a % b)

\* a number that need not be whole: numerator over denominator in lowest
\* terms, the denominator positive
Ratio(a, b) ==
    LET g == Gcd(IF a < 0 THEN 0 - a ELSE a, b)
    IN [num |-> a \div g, den |-> b \div g]

\* np.array(v).sum(): a sequence is summed, a number is itself, a flag
\* counts as 0 or 1
NpSum(v) ==
    CASE v.kind = "sequence" -> SumSeq(v.val)
      [] v.kind = "scalar" -> v.val
      [] v.kind = "bool" -> IF v.val THEN 1 ELSE 0

\* np.mean(ns) of a non-empty list of numbers
NpMean(ns) == Ratio(SumSeq(ns), Len(ns))

\* info = [i for i in info if i]
NonEmpty(info) == SelectSeq(info, Truthy)

\* set([k for i in info for k in i.keys()])
KeysOf(info) == UNION {DOMAIN info[n] : n \in 1 .. Len(info)}

\* a mean taken over every non-empty dict, whether it has the key or not
SquashMeanOverAll(info, key) ==
    LET has == SelectSeq(info, LAMBDA d : key \in DOMAIN d)
        sum == SumSeq([n \in 1 .. Len(has) |-> NpSum(has[n][key])])
    IN Ratio(sum, Len(info))

\* np.mean([np.array(d[key]).sum() for d in info if key in d])
SquashMean(info, key) ==
    LET has == SelectSeq(info, LAMBDA d : key \in DOMAIN d)
    IN NpMean([n \in 1 .. Len(has) |-> NpSum(has[n][key])])

\* an aggregation that keeps the reserved key
SquashKeysAll(info) == KeysOf(info)

\* keys = set(...); keys.discard("TimeLimit.truncated")
SquashKeys(info) == KeysOf(info) \ {TruncKey}

\* _squash_info(info)
SquashInfo(info) ==
    LET kept == NonEmpty(info)
    IN [key \in SquashKeys(kept) |-> SquashMean(kept, key)]

\* f"... {info['episode_reward']:.5f}": the lookup raises KeyError when the
\* key is missing
Raises(squashed) == RewardKey \notin DOMAIN squashed

Goto(c) == pc' = c.pc /\ k' = c.k /\ step' = c.step

\* ------------------------------------------------------------- Init ----
Optional(S) == {Some(n) : n \in S} \cup {None}

\* The state after construction (the environment made and reset, the agents
\* made, slot 0 of every storage seeded with the agent's reset observation),
\* placed at statement p of update jj with the info window holding w
MainAt(p, jj, w) ==
    /\ pc = p
    /\ j = jj
    /\ step = 0
    /\ k = 0
    /\ n_value = << >>
    /\ n_action = << >>
    /\ n_action_log_prob = << >>
    /\ n_recurrent_hidden_states = << >>
    /\ obs = ResetObs
    /\ reward = << >>
    /\ done = [e \in EnvIds |-> FALSE]
    /\ infos = [e \in EnvIds |-> EmptyInfo]
    /\ masks = Ones
    /\ bad_masks = Ones
    /\ storage = [i \in AgentIds |-> SeedObs(NewStorage, ResetObs[i + 1])]
    /\ params = [i \in AgentIds |-> 0]
    /\ all_infos = w
    /\ environment_steps = jj * NumSteps * NumEnvs
    /\ envs_open = TRUE
    /\ elapsed = [e \in EnvIds |-> 0]
    /\ error = ""
    /\ dirs = {}
    /\ files = {}
    /\ tars = {}
    /\ events = << >>
    /\ cadence = << >>
    /\ update_seen = << >>
    /\ env_hist = [s \in Slots |-> Unset]
    /\ produced = w
    /\ log_len = 0
    /\ logged = {}
    /\ saved = {}
    /\ archived = {}
    /\ evaluated = << >>
    /\ act_read = None
    /\ stepped_with = << >>
    /\ env_step_calls = 0
    /\ close_calls = 0

\* the locals of evaluate() with its environment in state env ("none" while
\* evaluate is not running) and w collected
EvalAt(env, w) ==
    /\ eval_envs = env
    /\ eval_elapsed = [e \in EvalIds |-> 0]
    /\ eval_masks = ZeroMasks
    /\ eval_n_masks = ZeroMasks
    /\ eval_done = [e \in EvalIds |-> FALSE]
    /\ eval_infos = w
    /\ eval_act_masks = None
    /\ eval_steps = 0
    /\ eval_episodes = Len(w)
    /\ eval_made = IF env = "none" THEN 0 ELSE 1
    /\ eval_closes = IF env = "closed" THEN 1 ELSE 0
    /\ eval_misuse = FALSE

\* _squash_info is not being called on its own
SquashIdle ==
    /\ squash_in = << >>
    /\ squash_out = None

Init ==
    /\ num_env_steps \in {NumSteps * NumEnvs - 1, NumEnvSteps}
    /\ log_interval \in 1 .. MaxLogInterval
    /\ save_interval \in Optional(1 .. MaxSaveInterval)
    /\ eval_interval \in Optional(1 .. MaxEvalInterval)
    /\ MainAt("loop", 0, << >>)
    /\ EvalAt("none", << >>)
    /\ reported = None
    /\ SquashIdle

Record(ev) == events' = Append(events, ev)

\* ---------------------------------------------------------- actions ----
\* for j in range(1, num_updates + 1): environment_steps += ...
NextUpdate ==
    /\ pc = "loop"
    /\ IF j < num_updates
       THEN /\ j' = j + 1
            /\ environment_steps' = environment_steps + NumSteps * NumEnvs
            /\ Goto(Ctl("act", 0, 0))
            /\ events' = << >>
            /\ cadence' = << >>
            /\ update_seen' = << >>
            /\ env_hist' = [s \in Slots |-> Unset]
       ELSE /\ Goto(Ctl("close", 0, 0))
            /\ UNCHANGED << j, environment_steps, events, cadence, update_seen, env_hist >>
    /\ UNCHANGED << config_vars, log_len, env_vars, cadence_hist, act_vars, storage,
                    params, all_infos, envs_open, produced, error, route_vars,
                    count_vars, fs_vars, eval_vars, squash_vars >>

\* agent.model.act(agent.storage.obs[step], ..., agent.storage.masks[step])
Act ==
    /\ pc = "act"
    /\ LET id == agents[k + 1]
           Held_(seq) == IF k = 0 THEN << >> ELSE seq
       IN
         /\ act_read' = Some([agent |-> id, cycle |-> j, step |-> step,
                              input |-> ActInput(storage[id], step)])
         /\ n_value' = Append(Held_(n_value), Tensor("value", j, step, id))
         /\ n_action' = Append(Held_(n_action), Tensor("action", j, step, id))
         /\ n_action_log_prob' =
              Append(Held_(n_action_log_prob), Tensor("log_prob", j, step, id))
         /\ n_recurrent_hidden_states' =
              Append(Held_(n_recurrent_hidden_states), Tensor("hidden", j, step, id))
         /\ Record(<< "act", id, step >>)
    /\ Goto(Advance(pc, k, step))
    /\ UNCHANGED << config_vars, log_len, env_vars, cadence_hist, j, storage, params,
                    all_infos, environment_steps, envs_open, cadence, update_seen,
                    env_hist, produced, error, obs, reward, stepped_with,
                    count_vars, fs_vars, eval_vars, squash_vars >>

\* obs, reward, done, infos = envs.step(n_action); masks = ...; bad_masks = ...
\* when the instances return out
EnvStepTo(out) ==
    /\ pc = "env_step"
    /\ elapsed' = [e \in EnvIds |-> ElapsedAfter(elapsed[e], out[e])]
    /\ done' = [e \in EnvIds |-> out[e].done]
    /\ infos' = [e \in EnvIds |-> out[e].info]
    /\ masks' = [e \in EnvIds |-> MaskOf(out[e].done)]
    /\ bad_masks' = [e \in EnvIds |-> BadMaskOf(out[e].info)]
    /\ env_hist' = [env_hist EXCEPT ![step + 1] = out]
    /\ stepped_with' = n_action
    /\ obs' = [n \in 1 .. NumAgents |-> Tensor("obs", j, step, n - 1)]
    /\ reward' = [n \in 1 .. NumAgents |-> Tensor("reward", j, step, n - 1)]
    /\ env_step_calls' = env_step_calls + 1
    /\ Record(<< "env_step", step >>)
    /\ Goto(Advance(pc, k, step))
    /\ UNCHANGED << config_vars, log_len, cadence_hist, j, act_vars, storage, params,
                    all_infos, environment_steps, envs_open, cadence, update_seen,
                    produced, error, act_read, close_calls, fs_vars, eval_vars,
                    squash_vars >>

\* what the instances of an environment can return from one step
StepReturns == [EnvIds -> UNION {EnvOutcomes(el) : el \in 0 .. TimeLimit - 1}]

\* envs.step of a training environment that ends episodes at any step
EnvStep ==
    \E out \in StepReturns :
        /\ \A e \in EnvIds : out[e] \in EnvOutcomes(elapsed[e])
        /\ EnvStepTo(out)

\* envs.step of a training environment that runs every episode to the time
\* limit
EnvStepFull ==
    \E out \in StepReturns :
        /\ \A e \in EnvIds : out[e] \in FullEpisodes(elapsed[e])
        /\ EnvStepTo(out)

\* agents[i].storage.insert(obs[i], ..., masks, bad_masks)
Insert ==
    /\ pc = "insert"
    /\ LET id == agents[k + 1]
           a == InsertArgs(k + 1)
       IN
         /\ storage' = [storage EXCEPT ![id] =
                StorageInsert(@, a.obs, a.recurrent_hidden_states, a.actions,
                              a.action_log_probs, a.value_preds, a.rewards,
                              masks, bad_masks)]
         /\ Record(<< "insert", id, step >>)
    /\ Goto(Advance(pc, k, step))
    /\ UNCHANGED << config_vars, log_len, env_vars, cadence_hist, j, act_vars, params,
                    all_infos, environment_steps, envs_open, cadence, update_seen,
                    env_hist, produced, error, route_vars, count_vars, fs_vars,
                    eval_vars, squash_vars >>

\* for info in infos: if info: all_infos.append(info)
CollectInfos ==
    /\ pc = "infos"
    /\ all_infos' = CollectInto(all_infos, infos)
    /\ produced' = produced \o SelectSeq(infos, Truthy)
    /\ Goto(Advance(pc, k, step))
    /\ UNCHANGED << config_vars, log_len, env_vars, cadence_hist, j, act_vars, storage,
                    params, environment_steps, envs_open, events, cadence,
                    update_seen, env_hist, error, route_vars, count_vars, fs_vars,
                    eval_vars, squash_vars >>

\* for agent in agents: agent.compute_returns()
ComputeReturns ==
    /\ pc = "returns"
    /\ LET id == agents[k + 1] IN
         /\ storage' = [storage EXCEPT ![id] = StorageComputeReturns(@)]
         /\ Record(<< "compute_returns", id >>)
    /\ Goto(Advance(pc, k, step))
    /\ UNCHANGED << config_vars, log_len, env_vars, cadence_hist, j, act_vars, params,
                    all_infos, environment_steps, envs_open, cadence, update_seen,
                    env_hist, produced, error, route_vars, count_vars, fs_vars,
                    eval_vars, squash_vars >>

\* for agent in agents: loss = agent.update([a.storage for a in agents])
Update ==
    /\ pc = "update"
    /\ LET id == agents[k + 1] IN
         /\ params' = [params EXCEPT ![id] = @ + 1]
         /\ Record(<< "update", id, UpdateArg >>)
         /\ update_seen' =
              Append(update_seen, [n \in 1 .. NumAgents |-> storage[UpdateArg[n]]])
    /\ Goto(Advance(pc, k, step))
    /\ UNCHANGED << config_vars, log_len, env_vars, cadence_hist, j, act_vars, storage,
                    all_infos, environment_steps, envs_open, cadence, env_hist,
                    produced, error, route_vars, count_vars, fs_vars, eval_vars,
                    squash_vars >>

\* for agent in agents: agent.storage.after_update()
AfterUpdate ==
    /\ pc = "after_update"
    /\ LET id == agents[k + 1] IN
         /\ storage' = [storage EXCEPT ![id] = StorageAfterUpdate(@)]
         /\ Record(<< "after_update", id >>)
    /\ Goto(Advance(pc, k, step))
    /\ UNCHANGED << config_vars, log_len, env_vars, cadence_hist, j, act_vars, params,
                    all_infos, environment_steps, envs_open, cadence, update_seen,
                    env_hist, produced, error, route_vars, count_vars, fs_vars,
                    eval_vars, squash_vars >>

\* if j % log_interval == 0 and len(all_infos) > 1:
\*     squashed = _squash_info(all_infos); ... squashed['episode_reward'] ...
\*     wandb.log(squashed); all_infos.clear()
MaybeLog ==
    /\ pc = "log"
    /\ log_len' = Len(all_infos)
    /\ IF LogDue(j, all_infos)
       THEN IF Raises(SquashInfo(all_infos))
            THEN /\ error' = "KeyError"
                 /\ pc' = "failed"
                 /\ UNCHANGED << logged, all_infos, produced, cadence, k, step >>
            ELSE /\ logged' = logged \cup {j}
                 /\ all_infos' = Cleared(all_infos)
                 /\ produced' = << >>
                 /\ cadence' = Append(cadence, "log")
                 /\ Goto(Advance(pc, k, step))
                 /\ UNCHANGED error
       ELSE /\ Goto(Advance(pc, k, step))
            /\ UNCHANGED << logged, all_infos, produced, cadence, error >>
    /\ UNCHANGED << config_vars, env_vars, saved, archived, evaluated, j, act_vars,
                    storage, params, environment_steps, envs_open, events,
                    update_seen, env_hist, route_vars, count_vars, fs_vars,
                    eval_vars, squash_vars >>

\* if save_interval is not None and (...): cur_save_dir = ...
MaybeCheckpoint ==
    /\ pc = "save"
    /\ IF SaveDue(j)
       THEN /\ Goto(Ctl("save_agent", 0, 0))
            /\ cadence' = Append(cadence, "save")
       ELSE /\ Goto(Advance(pc, k, step))
            /\ UNCHANGED cadence
    /\ UNCHANGED << config_vars, log_len, env_vars, cadence_hist, j, act_vars, storage,
                    params, all_infos, environment_steps, envs_open, events,
                    update_seen, env_hist, produced, error, route_vars, count_vars,
                    fs_vars, eval_vars, squash_vars >>

\* for agent in agents: os.makedirs(save_at, exist_ok=True); agent.save(save_at)
SaveAgent ==
    /\ pc = "save_agent"
    /\ LET id == agents[k + 1] IN
         /\ dirs' = MakeDirs(dirs, j, id)
         /\ files' = files \cup {<< j, id >>}
         /\ saved' = saved \cup {<< j, id >>}
    /\ Goto(Advance(pc, k, step))
    /\ UNCHANGED << config_vars, log_len, env_vars, logged, archived, evaluated, j,
                    act_vars, storage, params, all_infos, environment_steps,
                    envs_open, events, cadence, update_seen, env_hist, produced,
                    error, route_vars, count_vars, tars, eval_vars, squash_vars >>

\* agent.save or shutil.make_archive raises: the directories made so far stay
CheckpointFails ==
    /\ \/ /\ pc = "save_agent"
          /\ dirs' = MakeDirs(dirs, j, agents[k + 1])
       \/ /\ pc = "archive"
          /\ UNCHANGED dirs
    /\ error' = "OSError"
    /\ pc' = "failed"
    /\ UNCHANGED << config_vars, log_len, env_vars, cadence_hist, j, step, k, act_vars,
                    storage, params, all_infos, environment_steps, envs_open,
                    events, cadence, update_seen, env_hist, produced, route_vars,
                    count_vars, files, tars, eval_vars, squash_vars >>

\* archive_name = shutil.make_archive(cur_save_dir, "xztar", save_dir, f"u{j}")
Archive ==
    /\ pc = "archive"
    /\ tars' = tars \cup {MakeArchive(dirs, files, j)}
    /\ Goto(Advance(pc, k, step))
    /\ UNCHANGED << config_vars, log_len, env_vars, cadence_hist, j, act_vars, storage,
                    params, all_infos, environment_steps, envs_open, events,
                    cadence, update_seen, env_hist, produced, error, route_vars,
                    count_vars, dirs, files, eval_vars, squash_vars >>

\* shutil.rmtree(cur_save_dir)
Rmtree ==
    /\ pc = "rmtree"
    /\ dirs' = {d \in dirs : d[1] # j}
    /\ files' = {f \in files : f[1] # j}
    /\ Goto(Advance(pc, k, step))
    /\ UNCHANGED << config_vars, log_len, env_vars, cadence_hist, j, act_vars, storage,
                    params, all_infos, environment_steps, envs_open, events,
                    cadence, update_seen, env_hist, produced, error, route_vars,
                    count_vars, tars, eval_vars, squash_vars >>

\* run.log_artifact(archive_name)
Upload ==
    /\ pc = "upload"
    /\ archived' = archived \cup {j}
    /\ Goto(Advance(pc, k, step))
    /\ UNCHANGED << config_vars, log_len, env_vars, logged, saved, evaluated, j,
                    act_vars, storage, params, all_infos, environment_steps,
                    envs_open, events, cadence, update_seen, env_hist, produced,
                    error, route_vars, count_vars, fs_vars, eval_vars, squash_vars >>

\* if eval_interval is not None and (...): evaluate(agents, ...), taken as
\* one step of main
MaybeEval ==
    /\ pc = "eval"
    /\ IF EvalDue(j)
       THEN /\ evaluated' = Append(evaluated, [j |-> j, params |-> params])
            /\ cadence' = Append(cadence, "eval")
       ELSE UNCHANGED << evaluated, cadence >>
    /\ Goto(Advance(pc, k, step))
    /\ UNCHANGED << config_vars, log_len, env_vars, logged, saved, archived, j,
                    act_vars, storage, params, all_infos, environment_steps,
                    envs_open, events, update_seen, env_hist, produced, error,
                    route_vars, count_vars, fs_vars, eval_vars, squash_vars >>

\* envs.close()
Close ==
    /\ pc = "close"
    /\ envs_open' = FALSE
    /\ close_calls' = close_calls + 1
    /\ pc' = "done"
    /\ UNCHANGED << config_vars, log_len, env_vars, cadence_hist, j, step, k, act_vars,
                    storage, params, all_infos, environment_steps, events, cadence,
                    update_seen, env_hist, produced, error, route_vars,
                    env_step_calls, fs_vars, eval_vars, squash_vars >>

Next ==
    \/ NextUpdate
    \/ Act
    \/ EnvStep
    \/ Insert
    \/ CollectInfos
    \/ ComputeReturns
    \/ Update
    \/ AfterUpdate
    \/ MaybeLog
    \/ MaybeCheckpoint
    \/ SaveAgent
    \/ CheckpointFails
    \/ Archive
    \/ Rmtree
    \/ Upload
    \/ MaybeEval
    \/ Close

Spec == Init /\ [][Next]_vars

\* ------------------------------------------------ evaluate, in steps ----
\* what main() and the sinks hold while evaluate() runs
main_vars == << config_vars, j, step, k, act_vars, env_vars, storage, params,
                all_infos, environment_steps, envs_open, events, update_seen,
                env_hist, produced, log_len, logged, saved, archived,
                route_vars, count_vars, fs_vars, squash_vars >>

\* if eval_interval is not None and (...): evaluate(agents, ...)
EvalCall ==
    /\ pc = "eval"
    /\ IF EvalDue(j)
       THEN /\ pc' = "eval_begin"
            /\ cadence' = Append(cadence, "eval")
            /\ reported' = None
       ELSE /\ pc' = Advance(pc, k, step).pc
            /\ UNCHANGED << cadence, reported >>
    /\ UNCHANGED << main_vars, evaluated, error, eval_envs, eval_elapsed, eval_masks,
                    eval_n_masks, eval_done, eval_infos, eval_act_masks,
                    eval_steps, eval_episodes, eval_made, eval_closes,
                    eval_misuse >>

\* eval_envs = make_vec_envs(..., episodes_per_eval, ...); n_obs = reset();
\* masks = torch.zeros(episodes_per_eval, 1); all_infos = []
EvalBegin ==
    /\ pc = "eval_begin"
    /\ eval_envs' = "open"
    /\ eval_made' = eval_made + 1
    /\ eval_elapsed' = [e \in EvalIds |-> 0]
    /\ eval_masks' = ZeroMasks
    /\ eval_infos' = << >>
    /\ pc' = EvalOrder(pc, 0)
    /\ UNCHANGED << main_vars, evaluated, error, cadence, eval_n_masks, eval_done,
                    eval_act_masks, eval_steps, eval_episodes, eval_closes,
                    eval_misuse, reported >>

\* while len(all_infos) < episodes_per_eval:
EvalLoop ==
    /\ pc = "eval_loop"
    /\ pc' = EvalOrder(pc, Len(eval_infos))
    /\ UNCHANGED << main_vars, evaluated, error, cadence, eval_vars >>

\* agent.model.act(n_obs[agent.agent_id], recurrent_hidden_states, masks)
\* for every agent
EvalAct ==
    /\ pc = "eval_act"
    /\ eval_act_masks' = Some(eval_masks)
    /\ pc' = EvalOrder(pc, Len(eval_infos))
    /\ UNCHANGED << main_vars, evaluated, error, cadence, eval_envs, eval_elapsed,
                    eval_masks, eval_n_masks, eval_done, eval_infos, eval_steps,
                    eval_episodes, eval_made, eval_closes, eval_misuse,
                    reported >>

\* n_obs, _, done, infos = eval_envs.step(n_action); n_masks = ...;
\* all_infos.extend([i for i in infos if i])
EvalEnvStep ==
    /\ pc = "eval_step"
    /\ \E out \in [EvalIds -> UNION {EnvOutcomes(el) : el \in 0 .. TimeLimit - 1}] :
         /\ \A e \in EvalIds : out[e] \in EnvOutcomes(eval_elapsed[e])
         /\ eval_elapsed' = [e \in EvalIds |-> ElapsedAfter(eval_elapsed[e], out[e])]
         /\ eval_done' = [e \in EvalIds |-> out[e].done]
         /\ eval_n_masks' = [e \in EvalIds |-> MaskOf(out[e].done)]
         /\ eval_infos' = Extend(eval_infos, [e \in EvalIds |-> out[e].info])
         /\ eval_episodes' = eval_episodes + Cardinality({e \in EvalIds : out[e].done})
    /\ eval_steps' = eval_steps + 1
    /\ eval_misuse' = (eval_misuse \/ eval_envs # "open")
    /\ pc' = EvalOrder(pc, Len(eval_infos))
    /\ UNCHANGED << main_vars, evaluated, error, cadence, eval_envs, eval_masks,
                    eval_act_masks, eval_made, eval_closes, reported >>

\* eval_envs.close()
EvalClose ==
    /\ pc = "eval_close"
    /\ eval_envs' = "closed"
    /\ eval_closes' = eval_closes + 1
    /\ pc' = EvalOrder(pc, Len(eval_infos))
    /\ UNCHANGED << main_vars, evaluated, error, cadence, eval_elapsed, eval_masks,
                    eval_n_masks, eval_done, eval_infos, eval_act_masks,
                    eval_steps, eval_episodes, eval_made, eval_misuse, reported >>

\* evaluate returns: its locals are gone
EvalReturns ==
    /\ eval_envs' = "none"
    /\ eval_elapsed' = [e \in EvalIds |-> 0]
    /\ eval_masks' = ZeroMasks
    /\ eval_n_masks' = ZeroMasks
    /\ eval_done' = [e \in EvalIds |-> FALSE]
    /\ eval_infos' = << >>
    /\ eval_act_masks' = None
    /\ eval_steps' = 0
    /\ eval_episodes' = 0
    /\ eval_made' = 0
    /\ eval_closes' = 0
    /\ eval_misuse' = FALSE

\* info = _squash_info(all_infos); logging.info(f"... {info['episode_reward']}")
\* and the return to main
EvalReport ==
    /\ pc = "eval_report"
    /\ LET info == SquashInfo(eval_infos) IN
         IF Raises(info)
         THEN /\ error' = "KeyError"
              /\ pc' = "failed"
              /\ UNCHANGED << evaluated, eval_vars >>
         ELSE /\ reported' = Some([episodes |-> Len(eval_infos),
                                   mean |-> info[RewardKey]])
              /\ evaluated' = Append(evaluated, [j |-> j, params |-> params])
              /\ pc' = Advance("eval", k, step).pc
              /\ EvalReturns
              /\ UNCHANGED error
    /\ UNCHANGED << main_vars, cadence >>

\* _squash_info(info), called on its own
SquashCall ==
    /\ pc = "squash"
    /\ squash_out' = Some(SquashInfo(squash_in))
    /\ pc' = "squashed"
    /\ UNCHANGED << config_vars, j, step, k, act_vars, env_vars, storage, params,
                    all_infos, environment_steps, envs_open, error, events,
                    cadence, update_seen, env_hist, produced, log_len,
                    cadence_hist, route_vars, count_vars, fs_vars, eval_vars,
                    squash_in >>

NextEval ==
    \/ NextUpdate
    \/ Act
    \/ EnvStepFull
    \/ Insert
    \/ CollectInfos
    \/ ComputeReturns
    \/ Update
    \/ AfterUpdate
    \/ MaybeLog
    \/ MaybeCheckpoint
    \/ SaveAgent
    \/ Archive
    \/ Rmtree
    \/ Upload
    \/ EvalCall
    \/ EvalBegin
    \/ EvalLoop
    \/ EvalAct
    \/ EvalEnvStep
    \/ EvalClose
    \/ EvalReport
    \/ Close

SpecEval == Init /\ [][NextEval]_vars

\* A sequential program takes its next statement, and a call into the
\* evaluation environment returns
SpecEvalFair == SpecEval /\ WF_vars(NextEval)

\* -------------------------------------------- _squash_info, on lists ----
Dict1(key, v) == [x \in {key} |-> v]
Dict2(key1, v1, key2, v2) == [x \in {key1, key2} |-> IF x = key1 THEN v1 ELSE v2]

\* info dicts of mixed shapes: empty, scalar and sequence values, with and
\* without the reserved key, with and without "episode_reward"
SquashDicts ==
    { EmptyInfo,
      Dict1("r", Scalar(1)),
      Dict1("r", Scalar(3)),
      Dict1("r", Scalar(5)),
      Dict1("r", Vector(<< 1, 2 >>)),
      Dict1("q", Scalar(5)),
      Dict1(TruncKey, Flag(TRUE)),
      Dict2("r", Scalar(1), TruncKey, Flag(TRUE)),
      EpisodeInfo(1),
      TruncatedInfo(TimeLimit),
      Dict2(RewardKey, Vector(<< 1, 2 >>), "q", Scalar(5)) }

\* the lists of at most n elements of S
ListsOf(S, n) == UNION {[1 .. m -> S] : m \in 0 .. n}

\* Every list of at most MaxInfos such dicts, handed to _squash_info on its
\* own, or held (non-empty dicts only) by the info window of main at a
\* log-eligible update, or collected by evaluate (non-empty dicts, at least
\* episodes_per_eval of them) when its loop has ended
InitSquash ==
    /\ num_env_steps = NumEnvSteps
    /\ log_interval = 1
    /\ save_interval = None
    /\ eval_interval = Some(1)
    /\ reported = None
    /\ \E w \in ListsOf(SquashDicts, MaxInfos) :
         \/ /\ MainAt("squash", 0, << >>)
            /\ EvalAt("none", << >>)
            /\ squash_in = w
            /\ squash_out = None
         \/ /\ w = NonEmpty(w)
            /\ MainAt("log", 1, w)
            /\ EvalAt("none", << >>)
            /\ SquashIdle
         \/ /\ w = NonEmpty(w)
            /\ Len(w) >= EpisodesPerEval
            /\ MainAt("eval_report", 1, << >>)
            /\ EvalAt("closed", w)
            /\ SquashIdle

NextSquash ==
    \/ SquashCall
    \/ MaybeLog
    \/ EvalReport

SpecSquash == InitSquash /\ [][NextSquash]_vars

\* ============================================================ claims ====
IsPrefix(a, b) == Len(a) <= Len(b) /\ SubSeq(b, 1, Len(a)) = a

AgentCalls(tag) == [n \in 1 .. NumAgents |-> << tag, n - 1 >>]

StepEvents(s) ==
    [n \in 1 .. NumAgents |-> << "act", n - 1, s >>]
      \o << << "env_step", s >> >>
      \o [n \in 1 .. NumAgents |-> << "insert", n - 1, s >>]

RECURSIVE RolloutEvents(_)
RolloutEvents(n) == IF n = 0 THEN << >> ELSE RolloutEvents(n - 1) \o StepEvents(n - 1)

AllStorages == [m \in 1 .. NumAgents |-> m - 1]

UpdateCalls == [n \in 1 .. NumAgents |-> << "update", n - 1, AllStorages >>]

ExpectedCycle ==
    RolloutEvents(NumSteps) \o AgentCalls("compute_returns") \o UpdateCalls
      \o AgentCalls("after_update")

AfterCyclePcs == {"log", "save", "save_agent", "archive", "rmtree", "upload", "eval"}

IsCall(tag) == LET Test(ev) == ev[1] = tag IN SelectSeq(events, Test)

\* C1: in every update cycle the calls occur in the order: H rollout steps
\* (act of every agent, one env.step, insert of every agent), then
\* compute_returns of every agent, then update of every agent, then
\* after_update of every agent, with nothing interleaved; the cycle's calls
\* so far are always a prefix of that sequence, and the whole sequence has
\* been made when the cadence actions of the cycle start.
C1_PhaseOrder ==
    /\ IsPrefix(events, ExpectedCycle)
    /\ (pc \in AfterCyclePcs \/ (pc \in {"loop", "close", "done"} /\ j >= 1))
          => events = ExpectedCycle
    /\ pc = "update" => Len(IsCall("compute_returns")) = NumAgents
    /\ pc = "after_update" => Len(IsCall("update")) = NumAgents

C1_Witness ==
    /\ pc = "log"
    /\ j = num_updates
    /\ j >= 2
    /\ events = ExpectedCycle

\* C2: between two resets every storage receives exactly H inserts, never
\* more: the insert overflow never happens, every storage holds exactly H
\* non-seed transitions when compute_returns and update run, and all
\* storages have had the same number of inserts whenever main is outside
\* the per-agent insert and after_update loops (inside them the agents
\* already visited are the ones that differ).
C2_ExactlyHInserts ==
    /\ \A i \in AgentIds :
         /\ ~storage[i].overflow
         /\ storage[i].step <= NumSteps
         /\ Held(storage[i]) = storage[i].step
    /\ pc \in {"returns", "update"} =>
         \A i \in AgentIds : storage[i].step = NumSteps /\ Held(storage[i]) = NumSteps
    /\ pc \notin {"insert", "after_update"} =>
         \A i, i2 \in AgentIds : storage[i].step = storage[i2].step
    /\ pc \in {"act", "env_step", "infos"} =>
         \A i \in AgentIds :
             storage[i].step = (IF pc = "infos" THEN step + 1 ELSE step)
    /\ pc = "insert" =>
         \A i \in AgentIds : storage[i].step = (IF i < k THEN step + 1 ELSE step)
    /\ pc = "after_update" =>
         \A i \in AgentIds : storage[i].step = (IF i < k THEN 0 ELSE NumSteps)

C2_Witness ==
    /\ pc = "returns"
    /\ j >= 2
    /\ \A i \in AgentIds : Held(storage[i]) = NumSteps /\ ~storage[i].overflow

\* C3: in each cycle the update calls are made one at a time in ascending
\* agent id order starting with agent 0, each agent once, and every call is
\* handed the same collection: the storages of all agents in ascending
\* agent id order.
C3_UpdateOrder ==
    /\ IsPrefix(IsCall("update"), UpdateCalls)
    /\ pc = "update" => Len(IsCall("update")) = k
    /\ (pc \in AfterCyclePcs \/ pc = "after_update") =>
         /\ IsCall("update") = UpdateCalls
         /\ \A i \in AgentIds : params[i] = j
    /\ \A n \in 1 .. NumAgents : agents[n] = n - 1

C3_Witness ==
    /\ pc = "after_update"
    /\ k = 0
    /\ j >= 2
    /\ IsCall("update") = UpdateCalls

\* C4: from the first update call of a cycle until the last one has
\* returned no storage is written: every update call of the cycle is handed
\* storages with the same contents (transitions and returns) as the first
\* one, and no insert or after_update is made in between.
C4_ReadOnlyWindow ==
    /\ \A n \in 1 .. Len(update_seen) : update_seen[n] = update_seen[1]
    /\ (pc = "update" /\ k > 0) =>
         /\ Len(update_seen) = k
         /\ update_seen[1] = [n \in 1 .. NumAgents |-> storage[n - 1]]
    /\ pc = "update" =>
         IsCall("after_update") = << >> /\ Len(IsCall("insert")) = NumAgents * NumSteps
    /\ Len(update_seen) > 0 =>
         \A n \in 1 .. NumAgents :
             update_seen[1][n].returns /\ Held(update_seen[1][n]) = NumSteps

C4_Witness ==
    /\ pc = "after_update"
    /\ k = 0
    /\ Len(update_seen) = NumAgents
    /\ NumAgents >= 2
    /\ \E e \in EnvIds : update_seen[NumAgents][1].masks[NumSteps][e] = 0

\* the transitions a storage holds, with what the environment returned for them
StoredSteps ==
    {<< i, s, e >> \in AgentIds \X (1 .. NumSteps) \X EnvIds : storage[i].masks[s] # Unset}

NaturalEnd(out) == out.done /\ ~PyTruthy(Get(out.info, TruncKey))
TimeLimitCut(out) == PyTruthy(Get(out.info, TruncKey))

AfterLogPcs == {"save", "save_agent", "archive", "rmtree", "upload", "eval"}

\* C6 as claimed: metrics are logged at update j if and only if
\* j % log_interval = 0 and the info window held at least one info dict.
C6_LogIffNonEmpty ==
    pc \in AfterLogPcs =>
        ((j \in logged) <=> (j % log_interval = 0 /\ log_len >= 1))

CodeRank(c) == CASE c = "log" -> 1 [] c = "save" -> 2 [] c = "eval" -> 3
ClaimedRank(c) == CASE c = "save" -> 1 [] c = "eval" -> 2 [] c = "log" -> 3

\* C7 as claimed: within a cycle the cadence actions run in the order
\* checkpoint, evaluation, log.
C7_CheckpointEvalLog ==
    \A a, b \in 1 .. Len(cadence) :
        a < b => ClaimedRank(cadence[a]) < ClaimedRank(cadence[b])

\* C7 amended: within a cycle the cadence actions run in the order log,
\* checkpoint, evaluation: when the same update index triggers more than
\* one of them, the metrics are logged and the info window is cleared
\* before the checkpoint is written, and the checkpoint is written
\* (archived) before evaluation runs.
C7_LogCheckpointEval ==
    /\ \A a, b \in 1 .. Len(cadence) :
        a < b => CodeRank(cadence[a]) < CodeRank(cadence[b])
    /\ (Len(cadence) > 0 /\ cadence[Len(cadence)] \in {"save", "eval"}) =>
          /\ (j % log_interval = 0 /\ log_len > 1) =>
                (j \in logged /\ cadence[1] = "log")
          /\ j \in logged => (pc \in AfterLogPcs => all_infos = << >>)
    /\ (Len(cadence) > 0 /\ cadence[Len(cadence)] = "eval") =>
          (SaveDue(j) => (j \in archived /\ \A i \in AgentIds : << j, i >> \in saved))

C7_Witness ==
    /\ cadence = << "log", "save", "eval" >>
    /\ j \in logged /\ j \in archived

Completed(jj, pcs) == jj < j \/ (jj = j /\ pc \in pcs)

\* C8: with save_interval set, a checkpoint (a save of every agent, then the
\* archive) is written at update j if and only if j % save_interval = 0 or
\* j = num_updates; a run with num_updates >= 1 that reaches DONE has the
\* final update's checkpoint, and no other index has one.
C8_CheckpointCadence ==
    save_interval # None =>
       /\ \A jj \in 1 .. num_updates :
            Completed(jj, {"eval", "loop", "close", "done"}) =>
               /\ jj \in archived <=>
                     (jj % ValueOf(save_interval) = 0 \/ jj = num_updates)
               /\ jj \in archived <=> (\A i \in AgentIds : << jj, i >> \in saved)
               /\ jj \in archived <=> (\E i \in AgentIds : << jj, i >> \in saved)
       /\ archived \subseteq 1 .. j
       /\ \A p \in saved : p[1] \in 1 .. j
       /\ (pc = "done" /\ num_updates >= 1) => num_updates \in archived

C8_Witness ==
    /\ pc = "done"
    /\ save_interval # None
    /\ \E a, b \in 1 .. num_updates :
         /\ a \notin archived
         /\ b \in archived /\ b < num_updates
    /\ num_updates \in archived
    /\ num_updates % ValueOf(save_interval) # 0

EvalCount(jj) == Len(SelectSeq(evaluated, LAMBDA r : r.j = jj))

\* C9: with eval_interval set, evaluate is invoked at update j if and only
\* if j % eval_interval = 0 or j = num_updates, exactly once per such
\* index, and after that cycle's update and after_update of every agent:
\* the policies it is handed have had exactly j updates each.
C9_EvalCadence ==
    /\ eval_interval # None =>
         \A jj \in 1 .. num_updates :
            /\ Completed(jj, {"loop", "close", "done"}) =>
                 EvalCount(jj) =
                   (IF jj % ValueOf(eval_interval) = 0 \/ jj = num_updates THEN 1 ELSE 0)
            /\ EvalCount(jj) <= 1
            /\ jj > j => EvalCount(jj) = 0
    /\ \A n \in 1 .. Len(evaluated) :
         \A i \in AgentIds : evaluated[n].params[i] = evaluated[n].j
    /\ (Len(cadence) > 0 /\ cadence[Len(cadence)] = "eval") =>
         /\ events = ExpectedCycle
         /\ \A i \in AgentIds : storage[i].step = 0 /\ Held(storage[i]) = 0

C9_Witness ==
    /\ pc = "done"
    /\ eval_interval # None
    /\ num_updates % ValueOf(eval_interval) # 0
    /\ EvalCount(num_updates) = 1
    /\ \E a, b \in 1 .. num_updates - 1 : EvalCount(a) = 0 /\ EvalCount(b) = 1

LastN(seq, n) ==
    IF Len(seq) <= n THEN seq ELSE SubSeq(seq, Len(seq) - n + 1, Len(seq))

\* C10: the info window always holds at most 10 dicts, never an empty one,
\* and equals the most recent min(k, 10) of the k non-empty info dicts that
\* env.step has produced since the last metrics flush, in arrival order; it
\* is empty right after every flush and keeps its contents at an update
\* where no flush happens.
C10_InfoWindow ==
    /\ Len(all_infos) <= InfoWindowMaxLen
    /\ \A n \in 1 .. Len(all_infos) : Truthy(all_infos[n])
    /\ \A n \in 1 .. Len(produced) : Truthy(produced[n])
    /\ all_infos = LastN(produced, InfoWindowMaxLen)
    /\ pc \in AfterLogPcs =>
         /\ j \in logged => all_infos = << >>
         /\ j \notin logged => Len(all_infos) = log_len
    /\ pc \in {"act", "env_step", "insert", "infos"} => j \notin logged

C10_Witness ==
    /\ pc = "log"
    /\ j % log_interval = 0
    /\ Len(produced) > InfoWindowMaxLen
    /\ Len(all_infos) = InfoWindowMaxLen
    /\ all_infos # SubSeq(produced, 1, InfoWindowMaxLen)

EvalLoopPcs == {"eval_loop", "eval_act", "eval_step"}
EvalExitPcs == {"eval_close", "eval_report"}

\* C11: evaluate steps its environment only while it holds fewer than
\* episodes_per_eval non-empty info dicts and makes no step once it holds
\* that many; when the loop has been left the count is at least
\* episodes_per_eval and less than twice that; every dict held is non-empty
\* and the dicts held are one per episode that ended (an instance adds one
\* on the step where its episode ended), so never more than one per
\* instance and step.
C11_EvalLoopLength ==
    /\ Len(eval_infos) = eval_episodes
    /\ \A n \in 1 .. Len(eval_infos) : Truthy(eval_infos[n])
    /\ eval_episodes <= eval_steps * EpisodesPerEval
    /\ pc \in {"eval_act", "eval_step"} => Len(eval_infos) < EpisodesPerEval
    /\ pc \in EvalExitPcs =>
          /\ Len(eval_infos) >= EpisodesPerEval
          /\ Len(eval_infos) < 2 * EpisodesPerEval
          /\ eval_steps >= 1
    /\ pc \in EvalLoopPcs \cup EvalExitPcs => eval_envs # "none"

C11_Witness ==
    /\ pc = "eval_close"
    /\ Len(eval_infos) = 2 * EpisodesPerEval - 1
    /\ eval_steps >= 2
    /\ eval_steps < Len(eval_infos)
    /\ eval_episodes = Len(eval_infos)

EvalRunningPcs == {"eval_loop", "eval_act", "eval_step", "eval_close", "eval_report"}

\* what holds at every moment of an evaluate call
EvalCleanup ==
    /\ eval_made <= 1
    /\ eval_closes <= 1
    /\ ~eval_misuse
    /\ pc \in EvalRunningPcs =>
          /\ eval_made = 1
          /\ DOMAIN eval_elapsed = EvalIds
          /\ Cardinality(EvalIds) = EpisodesPerEval
    /\ pc \in EvalLoopPcs => eval_envs = "open" /\ eval_closes = 0
    /\ (pc = "eval_loop" /\ eval_steps = 0) =>
          (eval_infos = << >> /\ \A e \in EvalIds : eval_elapsed[e] = 0)
    /\ pc = "eval_close" =>
          eval_envs = "open" /\ eval_closes = 0 /\ Len(eval_infos) >= EpisodesPerEval
    /\ pc = "eval_report" =>
          eval_envs = "closed" /\ eval_closes = 1 /\ Len(eval_infos) >= EpisodesPerEval
    /\ pc \in {"loop", "close", "done"} => eval_envs = "none"
    /\ (pc \in {"close", "done"} /\ num_updates >= 1 /\ eval_interval # None) =>
          \E n \in 1 .. Len(evaluated) : evaluated[n].j = num_updates

\* C12: every evaluate call makes one fresh environment of episodes_per_eval
\* instances, steps it only while it is open, leaves the loop only with
\* episodes_per_eval infos collected, closes the environment exactly once
\* and before it aggregates, and main reaches DONE only after evaluate has
\* returned; and, when the statements of the program and the calls into the
\* evaluation environment keep returning, every evaluate call that starts
\* leaves its loop, reaches the aggregation and returns to main.
C12_EvalTerminatesAndCleans ==
    /\ []EvalCleanup
    /\ (pc = "eval_begin") ~> (pc = "eval_report")
    /\ (pc = "eval_report") ~> (pc = "loop" /\ eval_envs = "none")
    /\ <>(pc = "done")

C12_Witness ==
    /\ pc = "eval_report"
    /\ eval_envs = "closed"
    /\ eval_closes = 1
    /\ eval_made = 1
    /\ eval_steps = TimeLimit
    /\ j = num_updates

\* floor(floor(num_env_steps / num_steps) / num_envs)
FloorFloor == (num_env_steps \div NumSteps) \div NumEnvs

\* C13: the loop runs exactly floor(floor(num_env_steps / num_steps) /
\* num_envs) update cycles, so exactly that many times num_steps calls of
\* envs.step, and then closes the training environment, once; when the
\* environment is closed every agent has had that many updates and the
\* final cycle's checkpoint and evaluation (when configured) are done; no
\* envs.step is made on the closed environment; with zero cycles the
\* environment is still closed and nothing has been stepped, updated,
\* logged, saved or evaluated.
C13_RunsNumUpdatesThenCloses ==
    /\ j <= FloorFloor
    /\ env_step_calls <= FloorFloor * NumSteps
    /\ close_calls = (IF pc = "done" THEN 1 ELSE 0)
    /\ envs_open <=> close_calls = 0
    /\ pc = "env_step" => (envs_open /\ env_step_calls = (j - 1) * NumSteps + step)
    /\ pc \in {"close", "done"} =>
          /\ j = FloorFloor
          /\ env_step_calls = FloorFloor * NumSteps
          /\ environment_steps = FloorFloor * NumSteps * NumEnvs
          /\ \A i \in AgentIds : params[i] = FloorFloor
          /\ FloorFloor >= 1 =>
                /\ save_interval # None =>
                      (FloorFloor \in archived /\ << FloorFloor >> \notin dirs)
                /\ eval_interval # None =>
                      \E n \in 1 .. Len(evaluated) : evaluated[n].j = FloorFloor
          /\ FloorFloor = 0 =>
                /\ logged = {} /\ saved = {} /\ archived = {} /\ tars = {}
                /\ evaluated = << >>

C13_Witness ==
    /\ pc = "done"
    /\ ~envs_open
    /\ close_calls = 1
    /\ FloorFloor >= 2
    /\ j = FloorFloor
    /\ env_step_calls = FloorFloor * NumSteps
    /\ save_interval # None /\ FloorFloor \in archived
    /\ eval_interval # None /\ evaluated[Len(evaluated)].j = FloorFloor

\* the keys of the dicts of a list, the reserved key left out
UnionOfKeys(info) ==
    {key \in {"r", "q", RewardKey, LengthKey, TruncKey} :
        \E n \in 1 .. Len(info) : key \in DOMAIN info[n]} \ {TruncKey}

\* what a returned _squash_info call has done to the keys
SquashedKeys ==
    squash_out # None =>
       /\ DOMAIN ValueOf(squash_out) = UnionOfKeys(squash_in)
       /\ TruncKey \notin DOMAIN ValueOf(squash_out)
       /\ (\A n \in 1 .. Len(squash_in) : squash_in[n] = EmptyInfo) =>
              ValueOf(squash_out) = EmptyInfo
       /\ (squash_in = << >> \/ squash_in = << EmptyInfo, EmptyInfo >>) =>
              DOMAIN ValueOf(squash_out) = {}

\* C14: the keys of the result of _squash_info are the union of the keys of
\* the input dicts without "TimeLimit.truncated": the reserved key is never
\* in the result, empty dicts add nothing, the empty list and a list of
\* empty dicts give the empty mapping; and the call leaves the list it was
\* handed as it was.
C14_SquashKeys ==
    /\ []SquashedKeys
    /\ [][pc = "squash" => squash_in' = squash_in]_vars

C14_Witness ==
    /\ pc = "squashed"
    /\ squash_in = << EmptyInfo, Dict2("r", Scalar(1), TruncKey, Flag(TRUE)),
                      Dict1("q", Scalar(5)) >>
    /\ DOMAIN ValueOf(squash_out) = {"r", "q"}

\* s(v): a sequence is reduced to the sum of its elements, a scalar is kept
RECURSIVE Reduced(_)
Reduced(v) ==
    IF v.kind = "sequence"
    THEN (IF v.val = << >> THEN 0
          ELSE Head(v.val) + Reduced(Vector(Tail(v.val))))
    ELSE IF v.kind = "bool" THEN (IF v.val THEN 1 ELSE 0) ELSE v.val

\* the sum of s(d[key]) over the dicts of the list that contain key
RECURSIVE TotalOf(_, _)
TotalOf(info, key) ==
    IF info = << >> THEN 0
    ELSE (IF key \in DOMAIN Head(info) THEN Reduced(Head(info)[key]) ELSE 0)
           + TotalOf(Tail(info), key)

\* the number of dicts of the list that contain key
CountOf(info, key) == Cardinality({n \in 1 .. Len(info) : key \in DOMAIN info[n]})

\* C15: for every key of the result of _squash_info, the value is the sum
\* of s(d[key]) over the input dicts that contain the key divided by the
\* number of those dicts (s sums a sequence and keeps a scalar); dicts
\* without the key count neither above nor below the line; the call
\* returns for every list, whatever keys its dicts have; [{r:1},{r:3}]
\* gives r = 2 and [{r:[1,2]},{q:5},{r:5}] gives r = 4 and q = 5.
C15_SquashMean ==
    /\ pc = "squashed" => squash_out # None
    /\ squash_out # None =>
         /\ \A key \in DOMAIN ValueOf(squash_out) :
              LET v == ValueOf(squash_out)[key] IN
                /\ v.den > 0
                /\ CountOf(squash_in, key) > 0
                /\ v.num * CountOf(squash_in, key) = v.den * TotalOf(squash_in, key)
         /\ squash_in = << Dict1("r", Scalar(1)), Dict1("r", Scalar(3)) >> =>
              ValueOf(squash_out) = Dict1("r", Ratio(2, 1))
         /\ squash_in = << Dict1("r", Vector(<< 1, 2 >>)), Dict1("q", Scalar(5)),
                           Dict1("r", Scalar(5)) >> =>
              ValueOf(squash_out) = Dict2("r", Ratio(4, 1), "q", Ratio(5, 1))

C15_Witness ==
    /\ pc = "squashed"
    /\ squash_in = << Dict1("r", Vector(<< 1, 2 >>)), Dict1("q", Scalar(5)),
                      Dict1("r", Scalar(5)) >>
    /\ ValueOf(squash_out)["r"] = [num |-> 4, den |-> 1]
    /\ ValueOf(squash_out)["q"] = [num |-> 5, den |-> 1]

\* the archives of cycle jj, and what the cycle directory of jj holds
TarsOf(jj) == {t \in tars : t.update = jj}
DirsOf(jj) == {d \in dirs : d[1] = jj}
FilesOf(jj) == {f \in files : f[1] = jj}

\* the cycle directory with the subdirectories of the agents before list
\* position n, and the model files in them
TreeUpTo(jj, n) == {<< jj >>} \cup {<< jj, i >> : i \in 0 .. n - 1}
SavesUpTo(jj, n) == {<< jj, i >> : i \in 0 .. n - 1}

FullTar(jj) ==
    [update |-> jj, dirs |-> TreeUpTo(jj, NumAgents), files |-> SavesUpTo(jj, NumAgents)]

\* C16: a checkpoint cycle at update j first makes directory u<j> with one
\* subdirectory per agent and saves every agent into its own, then makes
\* one archive of the whole cycle directory, then deletes the directory,
\* then uploads the archive; after a completed cycle the archive exists
\* (holding every agent's subdirectory and model) and the directory does
\* not; a failure after the directory was made and before the archive was
\* written leaves the directory behind, with no archive and nothing
\* uploaded for that cycle.
C16_CheckpointOrder ==
    /\ \A jj \in 1 .. NumEnvSteps : Cardinality(TarsOf(jj)) <= 1
    /\ pc = "save_agent" =>
          /\ k > 0 => DirsOf(j) = TreeUpTo(j, k)
          /\ k = 0 => DirsOf(j) = {}
          /\ FilesOf(j) = SavesUpTo(j, k)
          /\ TarsOf(j) = {} /\ j \notin archived
    /\ pc = "archive" =>
          /\ DirsOf(j) = TreeUpTo(j, NumAgents)
          /\ FilesOf(j) = SavesUpTo(j, NumAgents)
          /\ TarsOf(j) = {} /\ j \notin archived
    /\ pc = "rmtree" =>
          /\ TarsOf(j) = {FullTar(j)}
          /\ DirsOf(j) = TreeUpTo(j, NumAgents)
          /\ j \notin archived
    /\ pc = "upload" =>
          /\ TarsOf(j) = {FullTar(j)}
          /\ DirsOf(j) = {} /\ FilesOf(j) = {}
          /\ j \notin archived
    /\ \A jj \in archived :
          TarsOf(jj) = {FullTar(jj)} /\ DirsOf(jj) = {} /\ FilesOf(jj) = {}
    /\ (pc = "failed" /\ error = "OSError") =>
          /\ << j >> \in dirs
          /\ TarsOf(j) = {}
          /\ j \notin archived
    /\ pc \notin {"save_agent", "archive", "rmtree", "failed"} => dirs = {}

C16_Witness ==
    /\ pc = "failed"
    /\ error = "OSError"
    /\ DirsOf(j) = TreeUpTo(j, NumAgents)
    /\ TarsOf(j) = {}
    /\ j \notin archived
    /\ \E jj \in archived : jj < j /\ TarsOf(jj) = {FullTar(jj)} /\ DirsOf(jj) = {}

\* what slot s of agent i's storage must hold during the rollout of cycle
\* c: slot 0 is the reset observation (first cycle) or the last transition
\* of the previous rollout, slot s > 0 is the transition of step s - 1
SlotObs(c, s, i) ==
    IF s > 0 THEN Tensor("obs", c, s - 1, i)
    ELSE IF c = 1 THEN ResetObs[i + 1]
    ELSE Tensor("obs", c - 1, NumSteps - 1, i)

SlotHidden(c, s, i) ==
    IF s > 0 THEN Tensor("hidden", c, s - 1, i)
    ELSE IF c = 1 THEN ZeroHidden
    ELSE Tensor("hidden", c - 1, NumSteps - 1, i)

\* C17: every act call of main reads a written slot of the agent's own
\* storage: at rollout step s it is handed slot s, and slot 0 holds the
\* agent's reset observation (first cycle) or slot H of the previous
\* rollout, copied by after_update (later cycles), and slot s > 0 holds
\* what the insert of step s - 1 of the same rollout wrote; when act is
\* about to run the slots up to the current step are written and the
\* slots after it are not, so nothing older can be read.
C17_ActReadsPopulated ==
    /\ act_read # None =>
          LET r == ValueOf(act_read) IN
            /\ r.input.obs = SlotObs(r.cycle, r.step, r.agent)
            /\ r.input.recurrent_hidden_states = SlotHidden(r.cycle, r.step, r.agent)
            /\ r.input.masks # Unset
            /\ r.input.masks \in [EnvIds -> {0, 1}]
    /\ pc = "act" =>
          \A i \in AgentIds :
            /\ \A s \in 0 .. step :
                  /\ storage[i].obs[s] = SlotObs(j, s, i)
                  /\ storage[i].recurrent_hidden_states[s] = SlotHidden(j, s, i)
                  /\ storage[i].masks[s] # Unset
            /\ \A s \in step + 1 .. NumSteps :
                  storage[i].obs[s] = Unset /\ storage[i].masks[s] = Unset
    /\ (pc = "loop" /\ j < FloorFloor) =>
          \A i \in AgentIds :
              storage[i].obs[0] = SlotObs(j + 1, 0, i) /\ storage[i].masks[0] # Unset

C17_Witness ==
    /\ pc = "env_step"
    /\ j >= 2
    /\ step >= 1
    /\ ValueOf(act_read).agent = NumAgents - 1
    /\ ValueOf(act_read).input.obs = Tensor("obs", j, step - 1, NumAgents - 1)
    /\ storage[NumAgents - 1].obs[0] = Tensor("obs", j - 1, NumSteps - 1, NumAgents - 1)
    /\ \E e \in EnvIds : ValueOf(act_read).input.masks[e] = 0

\* the tensors agent i's storage holds
TensorsOf(i) ==
    LET st == storage[i] IN
      {st.obs[s] : s \in Slots} \cup {st.recurrent_hidden_states[s] : s \in Slots}
        \cup {st.actions[s] : s \in Steps} \cup {st.action_log_probs[s] : s \in Steps}
        \cup {st.value_preds[s] : s \in Steps} \cup {st.rewards[s] : s \in Steps}

\* C18: the agent at list position i has agent_id i; the joint action
\* handed to envs.step has at position i the action of agent i's act call
\* of that step; the transition inserted into agent i's storage for step s
\* is agent i's own next observation, agent i's own recurrent state,
\* action, log-prob and value from its act call of step s, and column i of
\* the reward matrix of step s; no storage ever holds a tensor of another
\* agent.
C18_IndexPreservingRouting ==
    /\ \A n \in 1 .. NumAgents : agents[n] = n - 1
    /\ pc = "env_step" =>
          n_action = [n \in 1 .. NumAgents |-> Tensor("action", j, step, n - 1)]
    /\ pc \in {"insert", "infos"} =>
          /\ stepped_with = [n \in 1 .. NumAgents |-> Tensor("action", j, step, n - 1)]
          /\ stepped_with = n_action
    /\ \A i \in AgentIds :
          /\ \A s \in 0 .. storage[i].step - 1 :
                /\ storage[i].obs[s + 1] = Tensor("obs", j, s, i)
                /\ storage[i].recurrent_hidden_states[s + 1] = Tensor("hidden", j, s, i)
                /\ storage[i].actions[s] = Tensor("action", j, s, i)
                /\ storage[i].action_log_probs[s] = Tensor("log_prob", j, s, i)
                /\ storage[i].value_preds[s] = Tensor("value", j, s, i)
                /\ storage[i].rewards[s] = Tensor("reward", j, s, i)
          /\ \A t \in TensorsOf(i) :
                t = Unset \/ t = ZeroHidden \/ OwnerOf(t) = i

C18_Witness ==
    /\ pc = "returns"
    /\ j >= 2
    /\ NumAgents >= 2
    /\ stepped_with = [n \in 1 .. NumAgents |-> Tensor("action", j, NumSteps - 1, n - 1)]
    /\ \A i \in AgentIds :
          /\ storage[i].step = NumSteps
          /\ storage[i].rewards[NumSteps - 1] = Tensor("reward", j, NumSteps - 1, i)
          /\ storage[i].obs[NumSteps] = Tensor("obs", j, NumSteps - 1, i)
          /\ storage[i].actions[0] = Tensor("action", j, 0, i)

\* C19 as claimed: the masks handed to the act calls of evaluate are 0 for
\* every instance on the first step, and on every later step 0 for the
\* instances that reported done on the step before and 1 for the others.
C19_EvalMaskFollowsDone ==
    (pc = "eval_step" /\ eval_act_masks # None) =>
        ValueOf(eval_act_masks) =
            (IF eval_steps = 0 THEN ZeroMasks
             ELSE [e \in EvalIds |-> MaskOf(eval_done[e])])

\* C20 as claimed: the step that squashes the infos and reports the mean
\* episode reward never raises, in main for every content of the info
\* window at a log-eligible update and in evaluate for every collection of
\* infos, also when no dict has the key "episode_reward"; and after it, in
\* main, the metrics have been sent and the window is empty.
C20_ReportNeverRaises ==
    /\ error # "KeyError"
    /\ (pc = "save" /\ j % log_interval = 0 /\ log_len > 1) =>
          (j \in logged /\ all_infos = << >>)
====
